---- MODULE Spec2Model ----
(***************************************************************************)
(* The Goodreads quotes exporter (src/goodreads.py): the incremental       *)
(* dedup-and-append pipeline of main(), with the sinks it reads and writes *)
(* (one CSV file per category file name, one worksheet per sheet title)    *)
(* and the remote site it fetches from.                                    *)
(*                                                                         *)
(* Texts are sequences of one-character strings; category names are        *)
(* sequences of words.  A CSV file is the sequence of its lines; a line is *)
(* a record, the header line being the record CSV_HEADER.  Of the ten      *)
(* columns of a row the model keeps SNO, CATEGORY, QUOTE and TOTAL; THUMB  *)
(* and TRANSLATE are always empty and AUTHOR, TAGS, LIKES, IMAGE are       *)
(* copied through unread.                                                  *)
(***************************************************************************)
EXTENDS Integers, Sequences, FiniteSets, TLC

VARIABLES
    \* ---- the world outside the process (persists across runs)
    remote,           \* remote[num][p]: what page p of tag num holds, or Unpinned
    csv,              \* csv[file]: the lines of Export/<file>.csv on disk
    created,          \* the files for which Export/<file>.csv exists
    sheet,            \* sheet[title]: the rows of the worksheet, or NoSheet
    sheetEnv,         \* the service-account / sheet-URL environment
    runsLeft,         \* how many more times the program is started
    \* ---- inputs of the run
    tag_selection,    \* the text of TAG_SELECTION
    parsed,           \* what parse_tag_selection made of it
    chosen_numbers,   \* resolve_tag_selection()
    page_limit,       \* resolve_page_limit()
    \* ---- main()'s locals
    pc,               \* where main() is
    file_states,      \* file_states[file] = [existing, sno], or NotLoaded
    global_existing,  \* the global seen-set
    sheet_states,     \* sheet_states[title] = [existing, sno], or NotLoaded
    sheet_enabled,
    idx,              \* position in tags_to_scrape of the loop that is running
    cur_url,          \* page number of the URL to fetch next, 0 for None
    pages_done,
    last_sno,
    has_sheet_state,  \* sheet_state is not None
    new_sheet_rows,
    buf,              \* lines written to the open file and not yet on disk
    \* ---- history, read by the properties only
    csv0,             \* csv0[file]: how many lines the run found in the file
    sheet0,           \* sheet0[file]: the highest SNO the run found in the worksheet
    requests,         \* how many requests the run made for the tag it is at
    failed,           \* tags for which a fetch failed in this run
    ioFailed,         \* a CSV open/write/close failed in this run
    sheetFailed,      \* a spreadsheet call failed in this run
    sheet_read,       \* titles whose worksheet rows were all read in this run
    sheet_calls,      \* the append_rows calls of this run: [tag, rows] each
    opened_at,        \* how many lines the file had when the tag last opened it
    prev              \* "none" in the first run; in a later run "other" unless
                      \* the run before ended normally without a failed fetch:
                      \* then "covered" if it had the same tags and at least as
                      \* many pages, else "clean"

vars == << remote, csv, created, sheet, sheetEnv, runsLeft, tag_selection, parsed,
           chosen_numbers, page_limit, pc,
           file_states, global_existing, sheet_states, sheet_enabled, idx, cur_url,
           pages_done, last_sno, has_sheet_state, new_sheet_rows, buf,
           csv0, sheet0, requests, failed, ioFailed, sheetFailed, sheet_read, sheet_calls,
           opened_at, prev >>

-----------------------------------------------------------------------------
\* Bounds of the model

\* pages a tag listing has at most
MaxPages == 2
\* quote divs on one page at most
MaxPerPage == 2
\* largest page limit the user gives
MaxLimit == 2
\* runs of the program over the same sinks and the same remote site
MaxRuns == 2
\* pages_done and requests are counted up to MaxFetched and stay there: the
\* loop compares pages_done with a page limit of MaxLimit at most, and beyond
\* MaxFetched pages every such comparison gives what it gives at MaxFetched
MaxFetched == 101
\* data rows the sinks hold at startup at most, all sinks together
\* the longest TAG_SELECTION text tried on parse_tag_selection
MaxChoiceLen == 4

MaxInitRows == 1

-----------------------------------------------------------------------------
\* Program constants

\* parse_page keeps a quote only if len(quote) > 10
MinQuoteLen == 10

MAX_PAGES_PER_CATEGORY == 100

CSV_HEADER == [SNO |-> 0, CATEGORY |-> <<"CATEGORY">>, QUOTE |-> <<>>, TOTAL |-> 0,
               header |-> TRUE]

\* Rows 1, 2 and 23 of the tag table, numbered 1..3 in table order.  Rows 1
\* and 23 ("Love Quotes", "Love Quotes Quotes") share a file name.
RAW_TAG_TABLE ==
    << [num |-> 1, name |-> <<"Love", "Quotes">>],
       [num |-> 2, name |-> <<"Life", "Quotes">>],
       [num |-> 3, name |-> <<"Love", "Quotes", "Quotes">>] >>

TagNums == {RAW_TAG_TABLE[i].num : i \in 1..Len(RAW_TAG_TABLE)}

-----------------------------------------------------------------------------
\* Texts

TextA     == <<"C","a","r","p","e"," ","d","i","e","m","!">>
TextA2    == <<"c","a","r","p","e"," ","D","i","e","m","!">>
TextB     == <<"M","e","m","e","n","t","o"," ","m","o","r","i">>
TextShort == <<"o","k">>

\* "Life is what happens — John Lennon" between double quotes.  A character
\* that is not ASCII is written by its name.
RawLennon == <<"\"","L","i","f","e"," ","i","s"," ","w","h","a","t"," ",
               "h","a","p","p","e","n","s"," ","emdash"," ",
               "J","o","h","n"," ","L","e","n","n","o","n","\"">>

TextLife == <<"L","i","f","e"," ","i","s"," ","w","h","a","t"," ",
              "h","a","p","p","e","n","s">>

\* texts of quote divs that clean_text leaves as they are
CleanTexts == {TextA, TextA2, TextB, TextShort}

IsSpace(c) == c = " "

Lower(c) ==
    CASE c = "C" -> "c"
      [] c = "D" -> "d"
      [] c = "M" -> "m"
      [] OTHER -> c

RECURSIVE DropSpaces(_)
DropSpaces(s) ==
    IF s # <<>> /\ IsSpace(Head(s)) THEN DropSpaces(Tail(s)) ELSE s

\* re.sub(r"\s+", " ", text)
RECURSIVE CollapseSpaces(_)
CollapseSpaces(s) ==
    IF s = <<>> THEN <<>>
    ELSE IF IsSpace(Head(s)) THEN <<" ">> \o CollapseSpaces(DropSpaces(s))
    ELSE <<Head(s)>> \o CollapseSpaces(Tail(s))

RECURSIVE DropTrailingSpaces(_)
DropTrailingSpaces(s) ==
    IF s # <<>> /\ IsSpace(s[Len(s)])
    THEN DropTrailingSpaces(SubSeq(s, 1, Len(s) - 1)) ELSE s

\* str.strip()
Strip(s) == DropTrailingSpaces(DropSpaces(s))

\* the characters that are not ASCII
NonAscii == {"emdash", "endash", "hbar", "ldquo", "rdquo", "bullet", "acirc", "euro"}

\* The character class of the split at line 100, as the source file holds it:
\* the hyphen and the characters of the mis-decoded dashes and quotes.
SplitClass == {"-", "acirc", "euro", "rdquo", "ldquo", "bullet"}

RECURSIVE StripLeft(_, _)
StripLeft(s, chars) ==
    IF s # <<>> /\ Head(s) \in chars THEN StripLeft(Tail(s), chars) ELSE s

RECURSIVE StripRight(_, _)
StripRight(s, chars) ==
    IF s # <<>> /\ s[Len(s)] \in chars
    THEN StripRight(SubSeq(s, 1, Len(s) - 1), chars) ELSE s

\* re.split(r'\s*[...]+\s*', text, maxsplit=1)[0]: the text before the first
\* character of the class and before the spaces in front of it
RECURSIVE BeforeSplit(_)
BeforeSplit(s) ==
    IF s = <<>> THEN <<>>
    ELSE IF Head(DropSpaces(s) \o <<"x">>) \in SplitClass THEN <<>>
    ELSE <<Head(s)>> \o BeforeSplit(Tail(s))

\* Steps 1 and 3 to 6 of clean_text.  Step 2 replaces sequences that begin
\* with characters of the split class: after step 1 the text holds none.
clean_text(text) ==
    LET split == BeforeSplit(text)
        ascii == SelectSeq(split, LAMBDA c : c \notin NonAscii)
        bare == StripRight(StripLeft(Strip(ascii), {"\"", "'"}), {"\"", "'"})
        edges == {" ", ",", ".", ":", ";", "-"}
        trimmed == StripRight(StripLeft(bare, edges), edges)
    IN  Strip(CollapseSpaces(trimmed))

quote_key(text) ==
    LET t == Strip(CollapseSpaces(text)) IN [i \in 1..Len(t) |-> Lower(t[i])]

-----------------------------------------------------------------------------
\* Category names

IsQuotesWord(w) == w \in {"Quotes", "Quote"}

\* re.sub(r"\b(Quotes|Quote)\s+\1\b", r"\1", name): non-overlapping, left to right
RECURSIVE normalize_category(_)
normalize_category(name) ==
    IF name = <<>> THEN <<>>
    ELSE IF Len(name) >= 2 /\ IsQuotesWord(name[1]) /\ name[2] = name[1]
         THEN <<name[1]>> \o normalize_category(SubSeq(name, 3, Len(name)))
         ELSE <<name[1]>> \o normalize_category(Tail(name))

category_to_filename(name) ==
    LET clean == SelectSeq(normalize_category(name), LAMBDA w : w # "Quotes")
    IN  IF clean = <<>> THEN <<"Quotes">> ELSE clean

Files == {category_to_filename(RAW_TAG_TABLE[i].name) : i \in 1..Len(RAW_TAG_TABLE)}

\* tags_to_scrape, had the selected tags been taken from the last of the table
\* to the first
TagsToScrape_backwards(chosen) ==
    LET picked == SelectSeq(RAW_TAG_TABLE, LAMBDA t : t.num \in chosen)
    IN  [i \in 1..Len(picked) |-> picked[Len(picked) + 1 - i]]

\* tags_to_scrape = [tag for tag in RAW_TAG_TABLE if tag[0] in chosen_numbers]
TagsToScrape(chosen) == SelectSeq(RAW_TAG_TABLE, LAMBDA t : t.num \in chosen)

tags_to_scrape == TagsToScrape(chosen_numbers)

FileOf(i) == category_to_filename(tags_to_scrape[i].name)

CategoryOf(i) == normalize_category(tags_to_scrape[i].name)

-----------------------------------------------------------------------------
\* The tag selection

Digits == {"0", "1", "2", "3", "4", "5", "6", "7", "8", "9"}

DigitValue(c) ==
    CASE c = "0" -> 0 [] c = "1" -> 1 [] c = "2" -> 2 [] c = "3" -> 3
      [] c = "4" -> 4 [] c = "5" -> 5 [] c = "6" -> 6 [] c = "7" -> 7
      [] c = "8" -> 8 [] c = "9" -> 9

\* str.isdigit()
IsDigit(s) == s # <<>> /\ \A i \in 1..Len(s) : s[i] \in Digits

RECURSIVE Decimal(_)
Decimal(s) ==
    IF s = <<>> THEN 0
    ELSE Decimal(SubSeq(s, 1, Len(s) - 1)) * 10 + DigitValue(s[Len(s)])

\* int(s): whitespace around the number and a sign before it are taken;
\* ok is FALSE where int raises ValueError
ParseInt(s) ==
    LET t == Strip(s)
        signed == t # <<>> /\ Head(t) \in {"-", "+"}
        body == IF signed THEN Tail(t) ELSE t
    IN  IF IsDigit(body)
        THEN [ok |-> TRUE,
              value |-> IF signed /\ Head(t) = "-" THEN 0 - Decimal(body)
                        ELSE Decimal(body)]
        ELSE [ok |-> FALSE, value |-> 0]

\* the place of the first sep in s, 0 if there is none
FirstAt(s, sep) ==
    IF \E i \in 1..Len(s) : s[i] = sep
    THEN CHOOSE i \in 1..Len(s) : s[i] = sep /\ \A j \in 1..(i - 1) : s[j] # sep
    ELSE 0

\* str.split(sep)
RECURSIVE Split(_, _)
Split(s, sep) ==
    LET i == FirstAt(s, sep)
    IN  IF i = 0 THEN <<s>>
        ELSE <<SubSeq(s, 1, i - 1)>> \o Split(SubSeq(s, i + 1, Len(s)), sep)

\* the for loop of parse_tag_selection over the parts that are left, with the
\* numbers selected so far; {} where the function returns []
RECURSIVE ParseParts(_, _, _)
ParseParts(parts, max_number, selected) ==
    IF parts = <<>> THEN selected
    ELSE
      LET part == Strip(Head(parts))
          dash == FirstAt(part, "-")
          \* start_str, end_str = part.split("-", 1)
          start == ParseInt(SubSeq(part, 1, dash - 1))
          end == ParseInt(SubSeq(part, dash + 1, Len(part)))
          lo == IF start.value > end.value THEN end.value ELSE start.value
          hi == IF start.value > end.value THEN start.value ELSE end.value
      IN  IF part = <<>> THEN ParseParts(Tail(parts), max_number, selected)
          ELSE IF dash # 0
          THEN IF ~start.ok \/ ~end.ok THEN {}
               ELSE ParseParts(Tail(parts), max_number,
                               selected \cup {num \in 1..max_number :
                                                 lo <= num /\ num <= hi})
          ELSE IF IsDigit(part)
          THEN IF 1 <= Decimal(part) /\ Decimal(part) <= max_number
               THEN ParseParts(Tail(parts), max_number,
                               selected \cup {Decimal(part)})
               ELSE {}
          ELSE {}

\* parse_tag_selection: the set of the numbers of the list it returns
parse_tag_selection(choice, max_number) ==
    IF choice = <<>> THEN {} ELSE ParseParts(Split(choice, ","), max_number, {})

TextAll == <<"a", "l", "l">>

\* the texts of TAG_SELECTION a run is started with
Selections ==
    {<<"1">>, <<"2">>, <<"3">>, <<"2", ",", "1">>, <<"3", ",", "1">>,
     <<"2", "-", "3">>, TextAll}

\* resolve_tag_selection with TAG_SELECTION = env_choice: the values it may
\* return.  Where the text is refused, all tags if stdin is no terminal, else
\* what show_tag_menu returns: all tags, or whatever the user types that
\* parse_tag_selection does not refuse.
resolve_tag_selection(env_choice) ==
    IF env_choice = TextAll THEN {TagNums}
    ELSE IF parse_tag_selection(env_choice, Len(RAW_TAG_TABLE)) # {}
    THEN {parse_tag_selection(env_choice, Len(RAW_TAG_TABLE))}
    ELSE (SUBSET TagNums) \ {{}}

-----------------------------------------------------------------------------
\* Sinks

BoundedSeqs(S, n) == UNION {[1..k -> S] : k \in 0..n}

Max(a, b) == IF a >= b THEN a ELSE b

\* csv.DictReader / get_all_records: the first line names the columns
DataRows(lines) == IF lines = <<>> THEN <<>> ELSE Tail(lines)

RECURSIVE LastSno(_)
LastSno(rows) ==
    IF rows = <<>> THEN 0
    ELSE LET r == Head(rows)
         IN  IF r.header THEN LastSno(Tail(rows))
             ELSE Max(r.SNO, LastSno(Tail(rows)))

ExistingKeys(rows) ==
    {quote_key(rows[i].QUOTE) : i \in {j \in 1..Len(rows) : rows[j].QUOTE # <<>>}}

\* load_existing_quotes, had it gathered no key
load_existing_quotes_forgets(lines) ==
    [loaded |-> TRUE, existing |-> {}, sno |-> LastSno(DataRows(lines)),
     none |-> FALSE]

\* reading the file is taken to succeed
load_existing_quotes(lines) ==
    [loaded |-> TRUE, existing |-> ExistingKeys(DataRows(lines)),
     sno |-> LastSno(DataRows(lines)), none |-> FALSE]

\* The return statement sits in the except branch: when get_all_records()
\* raises, the function returns what it gathered so far (nothing); when every
\* row was read, it falls off its end and returns None.  (The loop over the
\* rows raises only on an SNO cell that str.isdigit accepts and int rejects;
\* the rows here carry integers.)
None == [loaded |-> FALSE, existing |-> {}, sno |-> 0, none |-> TRUE]

load_existing_sheet_quotes(rows, raised) ==
    IF raised THEN [loaded |-> TRUE, existing |-> {}, sno |-> 0, none |-> FALSE]
    ELSE None

NotLoaded == [loaded |-> FALSE, existing |-> {}, sno |-> 0, none |-> FALSE]

NoSheet == [exists |-> FALSE, rows |-> <<>>]

Row(sno, cat, quote) ==
    [SNO |-> sno, CATEGORY |-> cat, QUOTE |-> quote, TOTAL |-> Len(quote),
     header |-> FALSE]

-----------------------------------------------------------------------------
\* Remote pages

\* the texts quote divs hold
DivTexts == CleanTexts \cup {RawLennon, <<>>}

\* clean_text(quote_text.get_text(strip=True)), for every text of a quote div
CleanedText == [t \in DivTexts |-> clean_text(Strip(t))]

\* quote = clean_text(quote_text.get_text(strip=True)), for each quote div
Cleaned(divs) == [i \in 1..Len(divs) |-> CleanedText[divs[i]]]

\* parse_page, had it kept every quote that is not empty
parse_page_anylen(divs) == SelectSeq(Cleaned(divs), LAMBDA q : q # <<>>)

\* for quote_div in soup.find_all(...): keep the quote if len(quote) > 10
parse_page(divs) ==
    SelectSeq(Cleaned(divs), LAMBDA q : q # <<>> /\ Len(q) > MinQuoteLen)

\* the for loop over page_quotes, had it not added the admitted keys to the
\* seen-sets
RECURSIVE Admit_forgets(_, _, _, _)
Admit_forgets(quotes, seen, sno, cat) ==
    IF quotes = <<>> THEN [rows |-> <<>>, seen |-> seen, sno |-> sno]
    ELSE LET quote == Head(quotes)
             normalized_quote == quote_key(quote)
         IN  IF normalized_quote \notin seen
             THEN LET rest == Admit_forgets(Tail(quotes), seen, sno + 1, cat)
                  IN  [rest EXCEPT !.rows = <<Row(sno + 1, cat, quote)>> \o @]
             ELSE Admit_forgets(Tail(quotes), seen, sno, cat)

\* the for loop over page_quotes, had a quote that is already known taken a
\* serial number too
RECURSIVE Admit_counts_rejected(_, _, _, _)
Admit_counts_rejected(quotes, seen, sno, cat) ==
    IF quotes = <<>> THEN [rows |-> <<>>, seen |-> seen, sno |-> sno]
    ELSE LET quote == Head(quotes)
             normalized_quote == quote_key(quote)
         IN  IF normalized_quote \notin seen
             THEN LET rest == Admit_counts_rejected(Tail(quotes),
                                  seen \cup {normalized_quote}, sno + 1, cat)
                  IN  [rest EXCEPT !.rows = <<Row(sno + 1, cat, quote)>> \o @]
             ELSE Admit_counts_rejected(Tail(quotes), seen, sno + 1, cat)

\* the for loop over page_quotes: [rows, seen, sno] after it
RECURSIVE Admit(_, _, _, _)
Admit(quotes, seen, sno, cat) ==
    IF quotes = <<>> THEN [rows |-> <<>>, seen |-> seen, sno |-> sno]
    ELSE LET quote == Head(quotes)
             normalized_quote == quote_key(quote)
         IN  IF normalized_quote \notin seen
             THEN LET rest == Admit(Tail(quotes), seen \cup {normalized_quote},
                                    sno + 1, cat)
                  IN  [rest EXCEPT !.rows = <<Row(sno + 1, cat, quote)>> \o @]
             ELSE Admit(Tail(quotes), seen, sno, cat)

\* what a request for page p of a listing may be answered with: its quote
\* divs and the page its next-page link leads to, 0 if it has none
Responses(p) ==
    {[divs |-> d, next |-> n, pinned |-> TRUE] :
        d \in BoundedSeqs(CleanTexts, MaxPerPage),
        n \in IF p < MaxPages THEN {0, p + 1} ELSE {0}}

\* A tag listing whose pages are fixed.  ListingA has MaxPages pages, the
\* first with one quote and the others with a short text, a text that is
\* empty once cleaned and a second quote; ListingB has one page, with the two
\* quotes, the first in another spelling.
ListingA ==
    [p \in 1..MaxPages |->
        [divs |-> IF p = 1 THEN <<TextA>> ELSE <<TextShort, <<>>, TextB>>,
         next |-> IF p < MaxPages THEN p + 1 ELSE 0, pinned |-> TRUE]]

ListingB ==
    [p \in 1..MaxPages |->
        [divs |-> IF p = 1 THEN <<TextB, TextA2>> ELSE <<>>,
         next |-> 0, pinned |-> TRUE]]

\* A tag listing whose last page links back to its first.
ListingCycle ==
    [p \in 1..MaxPages |->
        [divs |-> IF p = 1 THEN <<TextA>> ELSE <<RawLennon>>,
         next |-> IF p < MaxPages THEN p + 1 ELSE 1, pinned |-> TRUE]]

\* the remote sites on which a listing may go round in a cycle
EndlessSites == [TagNums -> {ListingCycle, ListingB}]

\* the remote sites whose pages do not change between requests
PinnedSites == [TagNums -> {ListingA, ListingB}]

\* a URL whose page is not fixed: a request may be answered by any page
Unpinned == [divs |-> <<>>, next |-> 0, pinned |-> FALSE]

Served(num, p) == IF remote[num][p].pinned THEN {remote[num][p]} ELSE Responses(p)

\* n + 1, as far as the model counts
Counted(n) == IF n < MaxFetched THEN n + 1 ELSE n

\* the loop condition, had it let one page more through
LoopCond_onemore(url, limit, done) == url # 0 /\ (limit = 0 \/ done <= limit)

\* while cur_url and (page_limit == 0 or pages_done < page_limit)
LoopCond(url, limit, done) == url # 0 /\ (limit = 0 \/ done < limit)

-----------------------------------------------------------------------------
\* Initial states

LongTexts == {t \in CleanTexts : Len(t) > MinQuoteLen}

CategoriesOf(file) ==
    {normalize_category(RAW_TAG_TABLE[i].name) :
        i \in {j \in 1..Len(RAW_TAG_TABLE) :
                  category_to_filename(RAW_TAG_TABLE[j].name) = file}}

\* A sink written by earlier runs: nothing, or the header and rows 1..n
SinkContents(file) ==
    {<<>>} \cup
    UNION {{<<CSV_HEADER>> \o [i \in 1..n |-> Row(i, c[i], q[i])] :
               c \in [1..n -> CategoriesOf(file)], q \in [1..n -> LongTexts]} :
           n \in 1..MaxInitRows}

\* no DedupKey in two data rows of the CSV files
NoDuplicateKeys(files) ==
    \A f \in Files, g \in Files :
      \A i \in 2..Len(files[f]), j \in 2..Len(files[g]) :
        (f # g \/ i # j) => quote_key(files[f][i].QUOTE) # quote_key(files[g][j].QUOTE)

RECURSIVE Sum(_, _)
Sum(f, S) == IF S = {} THEN 0
             ELSE LET x == CHOOSE y \in S : TRUE IN f[x] + Sum(f, S \ {x})

DataRowCount(files) == Sum([f \in Files |-> Len(DataRows(files[f]))], Files)

EmptyFiles == [f \in Files |-> <<>>]

\* the CSV files a run may find: no DedupKey in two rows
InitCsv ==
    {c \in [Files -> UNION {SinkContents(f) : f \in Files}] :
        /\ \A f \in Files : c[f] \in SinkContents(f)
        /\ DataRowCount(c) <= MaxInitRows
        /\ NoDuplicateKeys(c)}

\* the worksheets a run may find beside the CSV files c
InitSheets(c) ==
    {[f \in Files |-> IF r[f] = <<>> THEN NoSheet ELSE [exists |-> TRUE, rows |-> r[f]]] :
        r \in {x \in [Files -> UNION {SinkContents(f) : f \in Files}] :
                  /\ \A f \in Files : x[f] \in SinkContents(f)
                  /\ DataRowCount(c) + DataRowCount(x) <= MaxInitRows}}

Terminal == {"done", "aborted", "crashed"}

NothingLoaded == [f \in Files |-> NotLoaded]

\* One run; the remote site may answer a request with any page.
Init ==
    /\ remote = [n \in TagNums |-> [p \in 1..MaxPages |-> Unpinned]]
    /\ csv \in InitCsv
    /\ created = {f \in Files : csv[f] # <<>>}
    /\ sheetEnv \in {"none", "malformed", "ok"}
    /\ sheet \in IF sheetEnv = "ok" THEN InitSheets(csv) ELSE {[f \in Files |-> NoSheet]}
    /\ runsLeft = 1
    /\ tag_selection = <<>>
    /\ parsed = {}
    /\ chosen_numbers = {}
    /\ page_limit = 0
    /\ pc = "start"
    /\ file_states = NothingLoaded
    /\ global_existing = {}
    /\ sheet_states = NothingLoaded
    /\ sheet_enabled = FALSE
    /\ idx = 0
    /\ cur_url = 0
    /\ pages_done = 0
    /\ last_sno = 0
    /\ has_sheet_state = FALSE
    /\ new_sheet_rows = <<>>
    /\ buf = <<>>
    /\ csv0 = [f \in Files |-> Len(csv[f])]
    /\ sheet0 = [f \in Files |-> LastSno(DataRows(sheet[f].rows))]
    /\ requests = 0
    /\ failed = {}
    /\ ioFailed = FALSE
    /\ sheetFailed = FALSE
    /\ sheet_read = {}
    /\ sheet_calls = <<>>
    /\ opened_at = 0
    /\ prev = "none"

\* MaxRuns runs one after the other, each over the CSV files the run before
\* left, against a remote site whose pages do not change; no CSV file exists
\* before the first run and the spreadsheet sink is not configured.
InitRerun ==
    /\ remote \in PinnedSites
    /\ csv = EmptyFiles
    /\ created = {}
    /\ sheetEnv = "none"
    /\ sheet = [f \in Files |-> NoSheet]
    /\ runsLeft = MaxRuns
    /\ tag_selection = <<>>
    /\ parsed = {}
    /\ chosen_numbers = {}
    /\ page_limit = 0
    /\ pc = "start"
    /\ file_states = NothingLoaded
    /\ global_existing = {}
    /\ sheet_states = NothingLoaded
    /\ sheet_enabled = FALSE
    /\ idx = 0
    /\ cur_url = 0
    /\ pages_done = 0
    /\ last_sno = 0
    /\ has_sheet_state = FALSE
    /\ new_sheet_rows = <<>>
    /\ buf = <<>>
    /\ csv0 = [f \in Files |-> 0]
    /\ sheet0 = [f \in Files |-> 0]
    /\ requests = 0
    /\ failed = {}
    /\ ioFailed = FALSE
    /\ sheetFailed = FALSE
    /\ sheet_read = {}
    /\ sheet_calls = <<>>
    /\ opened_at = 0
    /\ prev = "none"

\* One run against a remote site whose pages do not change, over CSV files
\* and, if the spreadsheet sink is configured, worksheets of earlier runs.
InitPinned ==
    /\ remote \in PinnedSites
    /\ csv \in InitCsv
    /\ created = {f \in Files : csv[f] # <<>>}
    /\ sheetEnv \in {"none", "ok"}
    /\ sheet \in IF sheetEnv = "ok" THEN InitSheets(csv) ELSE {[f \in Files |-> NoSheet]}
    /\ runsLeft = 1
    /\ tag_selection = <<>>
    /\ parsed = {}
    /\ chosen_numbers = {}
    /\ page_limit = 0
    /\ pc = "start"
    /\ file_states = NothingLoaded
    /\ global_existing = {}
    /\ sheet_states = NothingLoaded
    /\ sheet_enabled = FALSE
    /\ idx = 0
    /\ cur_url = 0
    /\ pages_done = 0
    /\ last_sno = 0
    /\ has_sheet_state = FALSE
    /\ new_sheet_rows = <<>>
    /\ buf = <<>>
    /\ csv0 = [f \in Files |-> Len(csv[f])]
    /\ sheet0 = [f \in Files |-> LastSno(DataRows(sheet[f].rows))]
    /\ requests = 0
    /\ failed = {}
    /\ ioFailed = FALSE
    /\ sheetFailed = FALSE
    /\ sheet_read = {}
    /\ sheet_calls = <<>>
    /\ opened_at = 0
    /\ prev = "none"

\* One run against a remote site on which a listing may go round in a cycle;
\* no CSV file exists and the spreadsheet sink is not configured.
InitEndless ==
    /\ remote \in EndlessSites
    /\ csv = EmptyFiles
    /\ created = {}
    /\ sheetEnv = "none"
    /\ sheet = [f \in Files |-> NoSheet]
    /\ runsLeft = 1
    /\ tag_selection = <<>>
    /\ parsed = {}
    /\ chosen_numbers = {}
    /\ page_limit = 0
    /\ pc = "start"
    /\ file_states = NothingLoaded
    /\ global_existing = {}
    /\ sheet_states = NothingLoaded
    /\ sheet_enabled = FALSE
    /\ idx = 0
    /\ cur_url = 0
    /\ pages_done = 0
    /\ last_sno = 0
    /\ has_sheet_state = FALSE
    /\ new_sheet_rows = <<>>
    /\ buf = <<>>
    /\ csv0 = [f \in Files |-> 0]
    /\ sheet0 = [f \in Files |-> 0]
    /\ requests = 0
    /\ failed = {}
    /\ ioFailed = FALSE
    /\ sheetFailed = FALSE
    /\ sheet_read = {}
    /\ sheet_calls = <<>>
    /\ opened_at = 0
    /\ prev = "none"

\* the characters of the TAG_SELECTION texts tried on parse_tag_selection
SelChars == {"0", "1", "3", "4", ",", "-", " ", "x"}

\* main() is about to call resolve_tag_selection, with any short text in
\* TAG_SELECTION.
InitSelect ==
    /\ remote = [n \in TagNums |-> ListingA]
    /\ csv = EmptyFiles
    /\ created = {}
    /\ sheetEnv = "none"
    /\ sheet = [f \in Files |-> NoSheet]
    /\ runsLeft = 1
    /\ tag_selection \in BoundedSeqs(SelChars, MaxChoiceLen) \cup {TextAll}
    /\ parsed = {}
    /\ chosen_numbers = {}
    /\ page_limit = 0
    /\ pc = "start"
    /\ file_states = NothingLoaded
    /\ global_existing = {}
    /\ sheet_states = NothingLoaded
    /\ sheet_enabled = FALSE
    /\ idx = 0
    /\ cur_url = 0
    /\ pages_done = 0
    /\ last_sno = 0
    /\ has_sheet_state = FALSE
    /\ new_sheet_rows = <<>>
    /\ buf = <<>>
    /\ csv0 = [f \in Files |-> 0]
    /\ sheet0 = [f \in Files |-> 0]
    /\ requests = 0
    /\ failed = {}
    /\ ioFailed = FALSE
    /\ sheetFailed = FALSE
    /\ sheet_read = {}
    /\ sheet_calls = <<>>
    /\ opened_at = 0
    /\ prev = "none"

\* The locals of the for loop's body are rebound at lines 464-479 before they
\* are read again.
TagLocalsGone ==
    /\ cur_url' = 0
    /\ pages_done' = 0
    /\ last_sno' = 0
    /\ has_sheet_state' = FALSE
    /\ new_sheet_rows' = <<>>
    /\ buf' = <<>>
    /\ requests' = 0

\* main() returns at line 543 ("aborted") or an exception ends the process
\* ("crashed"): what it held in memory is gone.
Exit(how) ==
    /\ pc' = how
    /\ file_states' = NothingLoaded
    /\ global_existing' = {}
    /\ sheet_states' = NothingLoaded
    /\ sheet_enabled' = FALSE
    /\ idx' = 0
    /\ TagLocalsGone

-----------------------------------------------------------------------------
\* main(), lines 399-423: the inputs, the sheet client, the spreadsheet

\* the pages a run with limit b fetches are among those a run with limit a fetches
Covers(a, b) == a = 0 \/ (b # 0 /\ b <= a)

Start ==
    /\ pc \in {"start"} \cup Terminal
    /\ runsLeft > 0
    /\ runsLeft' = runsLeft - 1
    /\ \E choice \in Selections, limit \in 0..MaxLimit,
          open_ok \in IF sheetEnv = "ok" THEN BOOLEAN ELSE {FALSE} :
          \E chosen \in resolve_tag_selection(choice) :
          /\ tag_selection' = choice
          /\ parsed' = parse_tag_selection(choice, Len(RAW_TAG_TABLE))
          /\ chosen_numbers' = chosen
          /\ page_limit' = limit
          /\ prev' = IF pc = "start" THEN "none"
                     ELSE IF pc # "done" \/ failed # {} THEN "other"
                     ELSE IF chosen = chosen_numbers /\ Covers(page_limit, limit)
                          THEN "covered" ELSE "clean"
          /\ sheetFailed' = (sheetEnv = "malformed" \/ (sheetEnv = "ok" /\ ~open_ok))
          /\ IF sheetEnv = "malformed"
             THEN \* Credentials.from_service_account_info raises on a credential
                  \* that is JSON but no service account: nothing catches it
                  Exit("crashed")
             ELSE /\ pc' = "load"
                  /\ idx' = 1
                  \* sheet_client is not None and bool(sheet_url), and
                  \* open_by_url did not raise
                  /\ sheet_enabled' = (sheetEnv = "ok" /\ open_ok)
                  /\ file_states' = NothingLoaded
                  /\ global_existing' = {}
                  /\ sheet_states' = NothingLoaded
                  /\ TagLocalsGone
    /\ csv0' = [f \in Files |-> Len(csv[f])]
    /\ sheet0' = [f \in Files |-> LastSno(DataRows(sheet[f].rows))]
    /\ failed' = {}
    /\ ioFailed' = FALSE
    /\ sheet_read' = {}
    /\ sheet_calls' = <<>>
    /\ opened_at' = 0
    /\ UNCHANGED << remote, csv, created, sheet, sheetEnv >>

\* main(), line 399 alone: chosen_numbers = resolve_tag_selection(), with the
\* text TAG_SELECTION holds
SelectTags ==
    /\ pc = "start"
    /\ parsed' = parse_tag_selection(tag_selection, Len(RAW_TAG_TABLE))
    /\ \E chosen \in resolve_tag_selection(tag_selection) :
         chosen_numbers' = chosen
    /\ pc' = "selected"
    /\ UNCHANGED << remote, csv, created, sheet, sheetEnv, runsLeft,
                    tag_selection, page_limit, file_states, global_existing,
                    sheet_states, sheet_enabled, idx, cur_url, pages_done,
                    last_sno, has_sheet_state, new_sheet_rows, buf, csv0, sheet0,
                    requests, failed, ioFailed, sheetFailed, sheet_read,
                    sheet_calls, opened_at, prev >>

-----------------------------------------------------------------------------
\* main(), lines 424-441: one iteration of the loop that loads the sinks

\* what the worksheet calls of lines 433-439 may do
SheetOutcomes == {"add_fails", "values_fails", "header_fails", "read_raises", "read_ok"}

LoadCategory ==
    /\ pc = "load"
    /\ LET file == FileOf(idx)
           loaded == load_existing_quotes(csv[file])
           more == idx < Len(tags_to_scrape)
       IN
       IF ~sheet_enabled
       THEN /\ file_states' = [file_states EXCEPT ![file] = loaded]
            /\ global_existing' = global_existing \cup loaded.existing
            /\ pc' = IF more THEN "load" ELSE "open"
            /\ idx' = IF more THEN idx + 1 ELSE 1
            /\ UNCHANGED << sheet, sheet_states, sheetFailed, sheet_read,
                            sheet_enabled, cur_url, pages_done, last_sno, has_sheet_state,
                            new_sheet_rows, buf, requests >>
       ELSE \E outcome \in SheetOutcomes :
            LET \* spreadsheet.worksheet(title), else add_worksheet(title)
                found == IF sheet[file].exists THEN sheet[file]
                         ELSE [exists |-> TRUE, rows |-> <<>>]
                \* if worksheet.get_all_values() == []: append_row(CSV_HEADER)
                headed == IF found.rows = <<>>
                          THEN [found EXCEPT !.rows = <<CSV_HEADER>>] ELSE found
                result == load_existing_sheet_quotes(DataRows(headed.rows),
                                                     outcome = "read_raises")
                raised == outcome \in {"add_fails", "values_fails", "header_fails"}
            IN
            /\ outcome = "header_fails" => found.rows = <<>>
            /\ sheet' = [sheet EXCEPT ![file] =
                           CASE outcome = "add_fails" -> @
                             [] outcome \in {"values_fails", "header_fails"} -> found
                             [] OTHER -> headed]
            /\ sheetFailed' = (sheetFailed \/ outcome # "read_ok")
            /\ sheet_read' = IF outcome = "read_ok" THEN sheet_read \cup {file}
                             ELSE sheet_read
            /\ IF raised \/ result.none
               THEN \* an exception of gspread, or the TypeError of unpacking
                    \* None at line 439: nothing catches it
                    Exit("crashed")
               ELSE /\ file_states' = [file_states EXCEPT ![file] = loaded]
                    /\ sheet_states' = [sheet_states EXCEPT ![file] = result]
                    /\ global_existing' = global_existing \cup loaded.existing
                                             \cup result.existing
                    /\ pc' = IF more THEN "load" ELSE "open"
                    /\ idx' = IF more THEN idx + 1 ELSE 1
                    /\ UNCHANGED << sheet_enabled, cur_url, pages_done, last_sno,
                                    has_sheet_state, new_sheet_rows, buf, requests >>
    /\ UNCHANGED << remote, csv, created, sheetEnv, runsLeft, tag_selection, parsed,
                    chosen_numbers,
                    page_limit, csv0, sheet0, failed, ioFailed,
                    sheet_calls, opened_at, prev >>

-----------------------------------------------------------------------------
\* main(), lines 463-484: the next tag's locals, open(csv_path, 'a'), the header

\* what the open file gets first, had the header been written to every file
HeaderAlways(file) == <<CSV_HEADER>>

\* if f.tell() == 0: writer.writerow(CSV_HEADER)
HeaderIfEmpty(file) == IF csv[file] = <<>> THEN <<CSV_HEADER>> ELSE <<>>

\* open() raised IOError, had the loop gone on to the next tag
OpenFailed_skips ==
    /\ ioFailed' = TRUE
    /\ pc' = IF idx < Len(tags_to_scrape) THEN "open" ELSE "done"
    /\ idx' = IF idx < Len(tags_to_scrape) THEN idx + 1 ELSE idx
    /\ TagLocalsGone
    /\ UNCHANGED << file_states, global_existing, sheet_states, sheet_enabled >>

\* open() raised IOError: caught at line 540, main returns
OpenFailed ==
    /\ ioFailed' = TRUE
    /\ Exit("aborted")

OpenCsv ==
    /\ pc = "open"
    /\ LET file == FileOf(idx) IN
       \E open_ok \in BOOLEAN :
         IF open_ok
         THEN \* mode 'a' creates the file if there is none
              /\ created' = created \cup {file}
              /\ opened_at' = Len(csv[file])
              /\ last_sno' = file_states[file].sno
              /\ has_sheet_state' = (sheet_enabled /\ sheet_states[file].loaded)
              /\ cur_url' = 1
              /\ pages_done' = 0
              /\ new_sheet_rows' = <<>>
              /\ requests' = 0
              /\ buf' = HeaderIfEmpty(file)
              /\ pc' = IF LoopCond(1, page_limit, 0) THEN "fetch" ELSE "finish"
              /\ UNCHANGED << ioFailed, file_states, global_existing, sheet_states,
                              sheet_enabled, idx >>
         ELSE OpenFailed /\ created' = created /\ opened_at' = opened_at
    /\ UNCHANGED << remote, csv, sheet, sheetEnv, runsLeft, tag_selection, parsed,
                    chosen_numbers,
                    page_limit, csv0, sheet0, failed, sheetFailed, sheet_read, sheet_calls,
                    prev >>

-----------------------------------------------------------------------------
\* main(), lines 486-529: one iteration of the while loop

\* the file after a write-out, had the file been opened in mode 'w'
Flushed_truncating(file, written, k) == [csv EXCEPT ![file] = SubSeq(written, 1, k)]

\* the file after the first k of the written lines went out to it (mode 'a')
Flushed(file, written, k) == [csv EXCEPT ![file] = @ \o SubSeq(written, 1, k)]

\* the lines written to a file: those on disk, then those in the buffer
Lines(f) ==
    IF pc \in {"fetch", "finish"} /\ FileOf(idx) = f THEN csv[f] \o buf ELSE csv[f]

\* the data rows this run has written to a file
Appended(f) ==
    SelectSeq(SubSeq(Lines(f), csv0[f] + 1, Len(Lines(f))), LAMBDA r : ~r.header)

KeysOf(rows) == {quote_key(rows[i].QUOTE) : i \in 1..Len(rows)}

CurTag == tags_to_scrape[idx].num

\* fetch() returned None, had that ended the run
FetchFailed_aborts ==
    /\ failed' = failed \cup {CurTag}
    /\ pc' = "aborted"
    /\ file_states' = NothingLoaded
    /\ global_existing' = {}
    /\ sheet_states' = NothingLoaded
    /\ sheet_enabled' = FALSE
    /\ idx' = 0
    /\ cur_url' = 0
    /\ pages_done' = 0
    /\ last_sno' = 0
    /\ has_sheet_state' = FALSE
    /\ new_sheet_rows' = <<>>
    /\ buf' = <<>>
    /\ UNCHANGED << csv, ioFailed >>

\* fetch() returned None, had the loop asked for the page again
FetchFailed_retries ==
    /\ failed' = failed \cup {CurTag}
    /\ pc' = "fetch"
    /\ UNCHANGED << csv, buf, global_existing, file_states, last_sno,
                    new_sheet_rows, pages_done, cur_url, ioFailed, sheet_states,
                    sheet_enabled, idx, has_sheet_state >>

\* fetch() returned None: break
FetchFailed ==
    /\ failed' = failed \cup {CurTag}
    /\ pc' = "finish"
    /\ UNCHANGED << csv, buf, global_existing, file_states, last_sno,
                    new_sheet_rows, pages_done, cur_url, ioFailed, sheet_states,
                    sheet_enabled, idx, has_sheet_state >>

\* the page was fetched, parsed, and every admitted row written
PageDone(resp) ==
    LET file == FileOf(idx)
        a == Admit(parse_page(resp.divs), global_existing, last_sno, CategoryOf(idx))
        \* find_next_page(soup)
        nxt == resp.next
    IN  \* writer.writerow(row_data): into the file object's buffer
        /\ buf' = buf \o a.rows
        /\ global_existing' = a.seen
        /\ file_states' = [file_states EXCEPT ![file].existing =
                              @ \cup (a.seen \ global_existing)]
        /\ last_sno' = a.sno
        /\ new_sheet_rows' = IF has_sheet_state THEN new_sheet_rows \o a.rows
                             ELSE new_sheet_rows
        /\ pages_done' = Counted(pages_done)
        /\ cur_url' = nxt
        /\ pc' = IF LoopCond(nxt, page_limit, Counted(pages_done)) THEN "fetch"
                 ELSE "finish"
        /\ UNCHANGED << csv, failed, ioFailed, sheet_states, sheet_enabled, idx,
                        has_sheet_state >>

\* writer.writerow raised IOError on an admitted row of some page: caught at
\* line 540.  The lines still buffered are lost.  (Lines that reached the
\* disk before the failing write are those of an earlier Flush.)
WriteFailed ==
    /\ \E resp \in Served(CurTag, cur_url) :
         Admit(parse_page(resp.divs), global_existing, last_sno,
               CategoryOf(idx)).rows # <<>>
    /\ csv' = csv
    /\ ioFailed' = TRUE
    /\ failed' = failed
    /\ Exit("aborted")

FetchPage ==
    /\ pc = "fetch"
    /\ \E outcome \in {"none", "page", "ioerror"} :
         CASE outcome = "none" -> FetchFailed /\ requests' = Counted(requests)
           [] outcome = "page" ->
                /\ \E resp \in Served(CurTag, cur_url) : PageDone(resp)
                /\ requests' = Counted(requests)
           [] outcome = "ioerror" -> WriteFailed
    /\ UNCHANGED << remote, created, sheet, sheetEnv, runsLeft, tag_selection, parsed,
                    chosen_numbers,
                    page_limit, csv0, sheet0, sheetFailed, sheet_read, sheet_calls,
                    opened_at, prev >>

-----------------------------------------------------------------------------
\* The file object of the open CSV writes buffered lines out when its buffer
\* fills: of the lines written so far any prefix may have reached the disk.

Flush ==
    /\ pc \in {"fetch", "finish"}
    /\ buf # <<>>
    /\ \E k \in 1..Len(buf) :
         /\ csv' = Flushed(FileOf(idx), buf, k)
         /\ buf' = SubSeq(buf, k + 1, Len(buf))
    /\ UNCHANGED << remote, created, sheet, sheetEnv, runsLeft, tag_selection, parsed,
                    chosen_numbers,
                    page_limit, pc, file_states, global_existing, sheet_states, sheet_enabled,
                    idx, cur_url, pages_done, last_sno, has_sheet_state,
                    new_sheet_rows, csv0, sheet0, requests, failed, ioFailed,
                    sheetFailed, sheet_read, sheet_calls, opened_at, prev >>

-----------------------------------------------------------------------------
\* main(), the end of the with block and lines 531-538: the file is closed,
\* the staged rows go to the worksheet in one call, the next tag is taken

\* whether the worksheet is called, had it been called for every tag
SheetCallDue_always == has_sheet_state

\* if sheet_state is not None and new_sheet_rows
SheetCallDue == has_sheet_state /\ new_sheet_rows # <<>>

\* the file's state, had the loop not stored the last serial in it
StoreSno_forgets(file) == file_states

\* state["sno"] = last_sno
StoreSno(file) == [file_states EXCEPT ![file].sno = last_sno]

FinishCategory ==
    /\ pc = "finish"
    /\ LET file == FileOf(idx)
           more == idx < Len(tags_to_scrape)
           staged == SheetCallDue
       IN
       \E outcome \in {"ok", "close_fails", "append_ioerror", "append_apierror"} :
         /\ outcome = "close_fails" => buf # <<>>
         /\ outcome \in {"append_ioerror", "append_apierror"} => staged
         \* closing writes the buffer out; if that fails the buffered lines are lost
         /\ csv' = IF outcome = "close_fails" THEN csv ELSE Flushed(file, buf, Len(buf))
         \* worksheet.append_rows(new_sheet_rows)
         /\ sheet' = IF staged /\ outcome = "ok"
                     THEN [sheet EXCEPT ![file].rows = @ \o new_sheet_rows]
                     ELSE sheet
         /\ sheet_calls' = IF staged /\ outcome # "close_fails"
                           THEN Append(sheet_calls,
                                       [tag |-> CurTag, rows |-> new_sheet_rows])
                           ELSE sheet_calls
         /\ ioFailed' = (ioFailed \/ outcome = "close_fails")
         /\ sheetFailed' = (sheetFailed \/ outcome \in {"append_ioerror", "append_apierror"})
         /\ CASE outcome \in {"close_fails", "append_ioerror"} ->
                   \* requests' exceptions are IOErrors too: line 540 catches them
                   Exit("aborted")
              [] outcome = "append_apierror" ->
                   \* gspread's APIError is no IOError: nothing catches it
                   Exit("crashed")
              [] OTHER ->
                   /\ file_states' = StoreSno(file)
                   \* sheet_state["sno"] = last_sno
                   /\ sheet_states' = IF staged
                                      THEN [sheet_states EXCEPT ![file].sno = last_sno]
                                      ELSE sheet_states
                   /\ pc' = IF more THEN "open" ELSE "done"
                   /\ idx' = IF more THEN idx + 1 ELSE idx
                   /\ TagLocalsGone
                   /\ UNCHANGED << global_existing, sheet_enabled >>
    /\ UNCHANGED << remote, created, sheetEnv, runsLeft, tag_selection, parsed,
                    chosen_numbers,
                    page_limit, csv0, sheet0, failed, sheet_read, opened_at,
                    prev >>

-----------------------------------------------------------------------------

Next ==
    \/ Start
    \/ LoadCategory
    \/ OpenCsv
    \/ FetchPage
    \/ Flush
    \/ FinishCategory

Spec == Init /\ [][Next]_vars

SpecRerun == InitRerun /\ [][Next]_vars

SpecPinned == InitPinned /\ [][Next]_vars

\* The selection alone, for every short text.
SpecSelect == InitSelect /\ [][SelectTags]_vars

\* The process runs on as long as it has a step to take.
SpecEndless == InitEndless /\ [][Next]_vars /\ WF_vars(Next)

-----------------------------------------------------------------------------
\* Properties

LoveFile == category_to_filename(<<"Love", "Quotes">>)

LifeFile == category_to_filename(<<"Life", "Quotes">>)

\* C1: in any run, whatever the selection and the pages, no two rows appended
\* during the run, to the same CSV file or to different ones, have the same
\* DedupKey.
C1_NoDuplicateAppended ==
    \A f \in Files, g \in Files :
      \A i \in 1..Len(Appended(f)), j \in 1..Len(Appended(g)) :
        (f # g \/ i # j) =>
            quote_key(Appended(f)[i].QUOTE) # quote_key(Appended(g)[j].QUOTE)

\* a run over all three tags has ended that appended a row to each of the two
\* files, so that every quote parsed after them met both keys
C1_Witness ==
    /\ pc = "done"
    /\ chosen_numbers = TagNums
    /\ Len(Appended(LoveFile)) = 1
    /\ Len(Appended(LifeFile)) = 1
    /\ Appended(LoveFile)[1].CATEGORY = normalize_category(<<"Love", "Quotes">>)

C3_NoKeyPersistedTwice == NoDuplicateKeys(csv)

\* C4: a run that follows a run which ended normally without a failed fetch,
\* over the same remote pages and the CSV files that run left, with the same
\* tags selected and a page limit that asks for no page the first run did not
\* ask for, appends no row to any CSV file and leaves every last serial as it
\* found it.
C4_RerunAppendsNothing ==
    prev = "covered" =>
      \A f \in Files :
        /\ Appended(f) = <<>>
        /\ file_states[f].loaded =>
              file_states[f].sno = LastSno(DataRows(SubSeq(csv[f], 1, csv0[f])))
        /\ (pc \in {"fetch", "finish"} /\ FileOf(idx) = f) =>
              last_sno = LastSno(DataRows(SubSeq(csv[f], 1, csv0[f])))

\* the second run over all tags and all pages has ended normally, over CSV
\* files that hold rows of the first run
C4_Witness ==
    /\ prev = "covered"
    /\ pc = "done"
    /\ failed = {}
    /\ chosen_numbers = TagNums
    /\ page_limit = 0
    /\ \E f \in Files : Len(csv[f]) > 1

\* C4 as stated: a run that follows a run which ended normally without a
\* failed fetch, over the same remote pages and the CSV files that run left,
\* appends no row to any CSV file, whatever tags and page limit it is given.
C4_AnyRerunAppendsNothing ==
    prev \in {"covered", "clean"} => \A f \in Files : Appended(f) = <<>>

\* C5: with the spreadsheet sink enabled, the first serial a run assigns in a
\* category is one more than the higher of the highest SNO the run found in
\* the category's CSV and the highest SNO it found in the worksheet.
C5_FirstSerialAfterBothSinks ==
    \A f \in Files :
      (sheet_enabled /\ sheet_states[f].loaded /\ Appended(f) # <<>>) =>
          Appended(f)[1].SNO =
              1 + Max(LastSno(DataRows(SubSeq(csv[f], 1, csv0[f]))), sheet0[f])

\* C6: when the spreadsheet sink is enabled, no spreadsheet call failed and a
\* worksheet's rows were read, the run has not crashed, and as long as it
\* runs every QUOTE of the worksheet is in the global seen-set.
C6_SheetReadProceeds ==
    \A f \in sheet_read :
      ~sheetFailed =>
          /\ pc # "crashed"
          /\ pc \notin Terminal =>
                ExistingKeys(DataRows(sheet[f].rows)) \subseteq global_existing

\* C7: the step in which a fetch fails leaves the run at the end of the tag's
\* loop with every line written so far in place and no CSV failure, and the
\* step that ends a tag whose fetch failed takes the next selected tag (or
\* ends the run normally after the last) unless a sink fails in it: the CSV
\* on closing, or the worksheet on taking the staged rows.
C7_FetchFailureNotFatal ==
    [][ /\ (pc = "fetch" /\ failed' # failed) =>
             /\ pc' = "finish"
             /\ idx' = idx
             /\ ~ioFailed'
             /\ \A f \in Files : Lines(f)' = Lines(f)
        /\ (/\ pc = "finish" /\ pc' # "finish" /\ CurTag \in failed
            /\ ~ioFailed'
            /\ (has_sheet_state /\ new_sheet_rows # <<>>) => sheet' # sheet) =>
             IF idx < Len(tags_to_scrape)
             THEN pc' = "open" /\ idx' = idx + 1
             ELSE pc' = "done"
      ]_vars

\* a run over two tags has ended normally: a fetch failed for the first after
\* it appended a row, and the second appended a row after that
C7_Witness ==
    /\ pc = "done"
    /\ chosen_numbers = {1, 2}
    /\ failed = {1}
    /\ Appended(LoveFile) # <<>>
    /\ Appended(LifeFile) # <<>>

\* C8: a fetch is never due for a tag for which a fetch failed in the run:
\* the step in which a fetch fails ends the tag's loop, and no request is
\* made for the tag after it.
C8_NoFetchAfterFailure ==
    [][ /\ pc' = "fetch" => CurTag' \notin failed'
        /\ (failed' # failed /\ failed' # {}) => pc' = "finish"
        /\ (pc = "finish" /\ CurTag \in failed) => requests' <= requests
      ]_vars

\* a run over the three tags has ended in which a fetch failed for two tags,
\* the second page of one of them
C8_Witness ==
    /\ pc = "done"
    /\ chosen_numbers = TagNums
    /\ page_limit = 0
    /\ failed = {1, 2}
    /\ Appended(LoveFile) # <<>>

\* C9: a run in which a spreadsheet call failed, and no CSV call, has neither
\* returned early nor crashed.
C9_SheetFailureNotFatal ==
    (sheetFailed /\ ~ioFailed) => pc \notin {"aborted", "crashed"}

\* C10: the step in which a CSV open, write or close fails ends the run and
\* leaves the CSV files on disk and the worksheets as they were, and after
\* it the run makes no request and changes no CSV file and no worksheet.
C10_CsvFailureAborts ==
    [][ ioFailed' =>
          /\ pc' = "aborted"
          /\ csv' = csv
          /\ sheet' = sheet
          /\ requests' <= requests
      ]_vars

\* the run was aborted by a CSV failure in the second tag, after the second
\* tag's file got its header: the row of the first tag is in its file
C10_Witness ==
    /\ pc = "aborted"
    /\ ioFailed
    /\ chosen_numbers = {1, 2}
    /\ Appended(LoveFile) # <<>>
    /\ csv0[LifeFile] = 0
    /\ csv[LifeFile] = <<CSV_HEADER>>

\* C11: with page limit 0 the pages fetched for one tag in a run are never
\* more than MAX_PAGES_PER_CATEGORY, however the next-page links run.
C11_PagesCapped ==
    page_limit = 0 => pages_done <= MAX_PAGES_PER_CATEGORY

\* C12: with a page limit L > 0 no more than L requests are made and no more
\* than L pages processed for a tag; the loop goes on only below L pages,
\* with a next-page link and no failed fetch; and a tag that ended below L
\* pages ended on a page without next-page link or on a failed fetch.
C12_PageLimitKept ==
    (page_limit > 0 /\ pc \in {"fetch", "finish"}) =>
        /\ requests <= page_limit
        /\ pages_done <= page_limit
        /\ pc = "fetch" =>
              pages_done < page_limit /\ cur_url # 0 /\ CurTag \notin failed
        /\ (pc = "finish" /\ pages_done < page_limit) =>
              cur_url = 0 \/ CurTag \in failed

\* with a page limit of 2 a tag has ended after one page, which had no
\* next-page link
C12_Witness ==
    /\ pc = "finish"
    /\ page_limit = 2
    /\ pages_done = 1
    /\ cur_url = 0
    /\ CurTag \notin failed

\* C13: no step of any run takes a line out of a CSV file or changes one:
\* what a file holds before a step is a prefix of what it holds after it.
C13_CsvAppendOnly ==
    [][ \A f \in Files :
          /\ Len(csv[f]) <= Len(csv'[f])
          /\ SubSeq(csv'[f], 1, Len(csv[f])) = csv[f]
      ]_vars

\* a second run, ended by a CSV failure, has added lines to a file that held
\* rows of the first run
C13_Witness ==
    /\ prev # "none"
    /\ pc = "aborted"
    /\ ioFailed
    /\ \E f \in Files : csv0[f] > 1 /\ Len(csv[f]) > csv0[f]

\* C14: at every moment of every run a CSV file that is not empty holds the
\* header as its first line and in no other line.
C14_HeaderOnceIfNotEmpty ==
    \A f \in Files :
      csv[f] # <<>> =>
        /\ csv[f][1] = CSV_HEADER
        /\ \A i \in 2..Len(csv[f]) : csv[f][i] # CSV_HEADER

\* the second run has written to a file of the first run twice, through two
\* tags of the same file, and ended
C14_Witness ==
    /\ prev # "none"
    /\ pc = "done"
    /\ chosen_numbers = {1, 3}
    /\ csv0[LoveFile] > 1
    /\ Len(csv[LoveFile]) > csv0[LoveFile]

\* C14 as stated: when a run has ended, every CSV file that exists holds the
\* header as its first line and in no other line.
C14_HeaderOnceIfExists ==
    pc \in Terminal =>
      \A f \in created :
        /\ csv[f] # <<>>
        /\ csv[f][1] = CSV_HEADER
        /\ \A i \in 2..Len(csv[f]) : csv[f][i] # CSV_HEADER

\* C15: every row a run appends to a CSV or stages for the worksheet has a
\* QUOTE of more than 10 characters; the seen-set gets no key of a text that
\* is empty or short; and the serial counter of the open file is the highest
\* SNO written to it, so that such a text takes no serial.
C15_ShortNeverAdmitted ==
    /\ \A f \in Files : \A i \in 1..Len(Appended(f)) :
          Len(Appended(f)[i].QUOTE) > MinQuoteLen
    /\ \A i \in 1..Len(new_sheet_rows) : Len(new_sheet_rows[i].QUOTE) > MinQuoteLen
    /\ quote_key(TextShort) \notin global_existing
    /\ <<>> \notin global_existing
    /\ pc \in {"fetch", "finish"} => last_sno = LastSno(Lines(FileOf(idx)))

\* the last page of a listing has been processed that holds a short text, an
\* empty one and then a quote, which was admitted and staged
C15_Witness ==
    /\ pc = "finish"
    /\ remote[CurTag] = ListingA
    /\ pages_done = MaxPages
    /\ has_sheet_state
    /\ Len(new_sheet_rows) > 0
    /\ new_sheet_rows[Len(new_sheet_rows)].QUOTE = TextB

\* C16: the quote div "Life is what happens — John Lennon", between double
\* quotes, is cleaned to "Life is what happens": on a site whose quote divs
\* are that one and three that cleaning leaves as they are, every appended
\* row holds one of the three or "Life is what happens".
C16_AttributionStripped ==
    \A f \in Files : \A i \in 1..Len(Appended(f)) :
        Appended(f)[i].QUOTE \in {TextA, TextA2, TextB, TextLife}

\* the positions, in document order, of the records of a page whose key is
\* neither in the seen-set nor the key of an earlier record of the page
NovelAt(quotes, seen) ==
    {j \in 1..Len(quotes) :
        /\ quote_key(quotes[j]) \notin seen
        /\ \A i \in 1..(j - 1) : quote_key(quotes[i]) # quote_key(quotes[j])}

\* C17: the rows a processed page adds to the category's CSV are the parsed
\* records whose key was not in the global seen-set when they were reached,
\* in document order; the k-th of them has SNO = the last serial before the
\* page + k, and a rejected record takes no serial.
C17_PageRowsInOrder ==
    [][(pc = "fetch" /\ pages_done' = pages_done + 1) =>
         LET quotes == parse_page(remote[CurTag][cur_url].divs)
             novel == NovelAt(quotes, global_existing)
             rows == SubSeq(buf', Len(buf) + 1, Len(buf'))
         IN  /\ Len(buf') >= Len(buf)
             /\ SubSeq(buf', 1, Len(buf)) = buf
             /\ Len(rows) = Cardinality(novel)
             /\ \A k \in 1..Len(rows) :
                  /\ rows[k].SNO = last_sno + k
                  /\ rows[k].CATEGORY = CategoryOf(idx)
                  /\ \E j \in novel :
                       /\ Cardinality({i \in novel : i <= j}) = k
                       /\ rows[k].QUOTE = quotes[j]
             /\ last_sno' = last_sno + Len(rows)]_vars

\* A page with a known quote before a new one was processed: the new one is
\* the only row added and has the serial after the file's last.
C17_Witness ==
    /\ pc = "finish"
    /\ pages_done = 1
    /\ remote[CurTag] = ListingB
    /\ Len(Appended(FileOf(idx))) = 1
    /\ Appended(FileOf(idx))[1].QUOTE = TextA2
    /\ Appended(FileOf(idx))[1].SNO = file_states[FileOf(idx)].sno + 1
    /\ last_sno = file_states[FileOf(idx)].sno + 1

\* the data rows a file holds after the line at which the tag opened it
EntryRows(lines) ==
    SelectSeq(SubSeq(lines, opened_at + 1, Len(lines)), LAMBDA r : ~r.header)

\* C19: with the spreadsheet sink enabled, the worksheet of a tag gets at most
\* one append_rows call, made when the tag's pages are over (after a failed
\* fetch too); the batch is not empty and is the rows the tag added to its
\* CSV in this run, in their order and with their serials, and the worksheet
\* grows by that batch and by nothing else while tags are scraped.
C19_OneBatchPerEntry ==
    [][/\ sheet_calls' # sheet_calls =>
            /\ pc = "finish" /\ pc' # "fetch"
            /\ Len(sheet_calls') = Len(sheet_calls) + 1
            /\ SubSeq(sheet_calls', 1, Len(sheet_calls)) = sheet_calls
            /\ \A i \in 1..Len(sheet_calls) : sheet_calls[i].tag # CurTag
            /\ LET call == sheet_calls'[Len(sheet_calls')]
               IN  /\ call.tag = CurTag
                   /\ call.rows # <<>>
                   /\ call.rows = EntryRows(csv'[FileOf(idx)])
                   /\ sheet' # sheet =>
                        sheet' = [sheet EXCEPT ![FileOf(idx)].rows = @ \o call.rows]
       /\ (pc \in {"open", "fetch", "finish"} /\ sheet' # sheet) =>
            sheet_calls' # sheet_calls]_vars

\* Two tags that share a worksheet were scraped; the fetch of the first
\* one's second page failed.  Each made one call, with the row it added.
C19_Witness ==
    /\ pc = "done"
    /\ Len(sheet_calls) = 2
    /\ sheet_calls[1].tag = 1 /\ 1 \in failed
    /\ sheet_calls[2].tag = 3
    /\ sheet_calls[1].rows \o sheet_calls[2].rows = Appended(LoveFile)
    /\ Len(Appended(LoveFile)) = 2
    /\ Len(sheet[LoveFile].rows) >= 3

\* C20: when the next page is about to be fetched, every row admitted on
\* the tag's pages processed so far is in the CSV file on disk, none is
\* still in the file object's buffer; so a process that stops there loses
\* no row of those pages.
C20_RowsOnDiskBeforeNextFetch ==
    pc = "fetch" => EntryRows(csv[FileOf(idx)]) = EntryRows(Lines(FileOf(idx)))

\* the parts of a selection text, as parse_tag_selection takes them apart
PartsOf(text) ==
    LET parts == Split(text, ",")
    IN  {Strip(parts[i]) : i \in 1..Len(parts)} \ {<<>>}

\* a part that is a range: its two ends as int reads them
RangeEnds(part) ==
    <<ParseInt(SubSeq(part, 1, FirstAt(part, "-") - 1)),
      ParseInt(SubSeq(part, FirstAt(part, "-") + 1, Len(part)))>>

\* the text names a number outside 1..max_number, alone or as an end of a
\* range
NamesOutOfRange(text, max_number) ==
    \E part \in PartsOf(text) :
        \/ IsDigit(part) /\ Decimal(part) \notin 1..max_number
        \/ /\ FirstAt(part, "-") # 0
           /\ \A k \in 1..2 : RangeEnds(part)[k].ok
           /\ \E k \in 1..2 : RangeEnds(part)[k].value \notin 1..max_number

\* the text has a range whose ends are not both numbers
HasBadRange(text) ==
    \E part \in PartsOf(text) :
        FirstAt(part, "-") # 0 /\ \E k \in 1..2 : ~RangeEnds(part)[k].ok

\* C21: parse_tag_selection returns the empty result for a text that names a
\* number outside 1..max, alone or as an end of a range ("0-3", "1-50"), or
\* that has a range it cannot read.
C21_OutOfRangeRefused ==
    (/\ pc = "selected"
     /\ \/ NamesOutOfRange(tag_selection, Len(RAW_TAG_TABLE))
        \/ HasBadRange(tag_selection))
    => parsed = {}

\* the pages of a listing a run goes through from page p on, if no fetch
\* fails and n more pages are allowed
RECURSIVE PagesFrom(_, _, _)
PagesFrom(listing, p, n) ==
    IF p = 0 \/ n = 0 THEN {}
    ELSE {p} \cup PagesFrom(listing, listing[p].next, n - 1)

\* the keys of the quotes on the pages of tag num that the run goes through
KeysOn(num) ==
    LET pages == PagesFrom(remote[num], 1,
                           IF page_limit = 0 THEN MaxPages ELSE page_limit)
    IN  UNION {{quote_key(parse_page(remote[num][p].divs)[i]) :
                   i \in 1..Len(parse_page(remote[num][p].divs))} : p \in pages}

\* the rows the worksheets held when the run started: all but the batches
\* the run's calls added
SheetRowsAtStart(f) ==
    LET added == {i \in 1..Len(sheet_calls) :
                     category_to_filename(RAW_TAG_TABLE[sheet_calls[i].tag].name) = f}
        n == Sum([i \in added |-> Len(sheet_calls[i].rows)], added)
    IN  DataRows(SubSeq(sheet[f].rows, 1, Len(sheet[f].rows) - n))

\* the keys in the sinks when the run started
KeysAtStart ==
    UNION {KeysOf(DataRows(SubSeq(csv[f], 1, csv0[f])))
              \cup KeysOf(SheetRowsAtStart(f)) : f \in Files}

\* where in the CSV files the rows with the key are
RowsWithKey(key) ==
    {<<f, i>> \in Files \X (1..(MaxInitRows + 1 + 3 * MaxPages * (MaxPerPage + 1))) :
        /\ i <= Len(csv[f])
        /\ ~csv[f][i].header
        /\ quote_key(csv[f][i].QUOTE) = key}

\* C22: the selected tags are scraped in the order of their numbers in the
\* table, in whatever order they were typed; so once a run has ended with no
\* fetch failed, a quote that was on pages of two selected tags and in no sink
\* when the run started is in the CSV files exactly once, in the file and
\* under the category of the tag with the lowest number that had it.
C22_LowestTagKeepsQuote ==
    /\ [](pc \in {"load", "open", "fetch", "finish", "done"} =>
            \A i, j \in 1..Len(tags_to_scrape) :
                i < j => tags_to_scrape[i].num < tags_to_scrape[j].num)
    /\ [][(pc \in {"open", "fetch", "finish"} /\ idx' # idx /\ pc' = "open")
             => idx' = idx + 1]_vars
    /\ []((pc = "done" /\ failed = {}) =>
            \A a, b \in chosen_numbers :
              \A key \in (KeysOn(a) \cap KeysOn(b)) \ KeysAtStart :
                a < b =>
                  LET first == CHOOSE n \in chosen_numbers :
                                  /\ key \in KeysOn(n)
                                  /\ \A m \in chosen_numbers :
                                        key \in KeysOn(m) => n <= m
                  IN  /\ Cardinality(RowsWithKey(key)) = 1
                      /\ \A w \in RowsWithKey(key) :
                           /\ w[1] = category_to_filename(RAW_TAG_TABLE[first].name)
                           /\ csv[w[1]][w[2]].CATEGORY =
                                 normalize_category(RAW_TAG_TABLE[first].name))

\* Tags 2 and 1 were typed in that order and both listings hold the same two
\* quotes: both quotes are in Love.csv and Life.csv has the header only.
C22_Witness ==
    /\ pc = "done" /\ failed = {}
    /\ tag_selection = <<"2", ",", "1">>
    /\ page_limit = 0
    /\ remote[1] = ListingA /\ remote[2] = ListingA
    /\ KeysAtStart = {}
    /\ Len(Appended(LoveFile)) = 2
    /\ Appended(LifeFile) = <<>>
    /\ Cardinality(RowsWithKey(quote_key(TextB))) = 1

\* the keys of the quotes on all the pages of the listing of tag num
KeysListed(num) ==
    LET pages == PagesFrom(remote[num], 1, MaxPages)
    IN  UNION {{quote_key(parse_page(remote[num][p].divs)[i]) :
                   i \in 1..Len(parse_page(remote[num][p].divs))} : p \in pages}

\* C22 as it is worded: once a run has ended, a quote that is on the pages of
\* two selected tags and was in no sink when the run started is in the CSV
\* files exactly once, in the file and under the category of the tag with the
\* lowest number whose pages have it, whatever the page limit was and whether
\* or not a fetch failed.
C22_LowestListedKeepsQuote ==
    pc = "done" =>
        \A a, b \in chosen_numbers :
          \A key \in (KeysListed(a) \cap KeysListed(b)) \ KeysAtStart :
            a < b =>
              LET first == CHOOSE n \in chosen_numbers :
                              /\ key \in KeysListed(n)
                              /\ \A m \in chosen_numbers :
                                    key \in KeysListed(m) => n <= m
              IN  /\ Cardinality(RowsWithKey(key)) = 1
                  /\ \A w \in RowsWithKey(key) :
                       /\ w[1] = category_to_filename(RAW_TAG_TABLE[first].name)
                       /\ csv[w[1]][w[2]].CATEGORY =
                             normalize_category(RAW_TAG_TABLE[first].name)

\* C18: the run eventually ends, whatever the page limit and the remote site,
\* a site whose next-page links go round in a cycle included.
C18_RunEnds == <>(pc \in Terminal)

====
